---- MODULE Spec2Model ----
(***************************************************************************)
(* Conversation/session lifecycle of the cursor_automation daemon:        *)
(* ThreadManager (thread_manager.py), AgentClient.invoke_agent            *)
(* (agent_client.py) and CursorDaemon.process_comment (daemon.py).        *)
(***************************************************************************)
EXTENDS Integers, Sequences, FiniteSets, TLC

\* ---------------------------------------------------------------- bounds
NumComments == 3      \* comment ids 1..NumComments
MaxTime     == 2      \* clock readings 1..MaxTime (seconds of time.time())
MaxMsgs     == 2      \* messages appended to one thread
MaxSteps    == 3      \* thread-manager and agent operations in one run
MaxCycles   == 2      \* poll cycles of the daemon in one run
MaxBody     == 3      \* words of a comment body given to parse_command
MaxLines    == 3      \* lines of a source file given to extract_code_snippet
MaxContext  == 2      \* context_lines given to extract_code_snippet
MaxParts    == 4      \* colon-separated parts of a comment location

\* ------------------------------------------------------------ environment
Comments == 1..NumComments
PRs      == {1, 2}
Times    == 1..MaxTime

\* The pull request a GitHub comment was written on.
PrOf(c) == IF c % 4 = 0 THEN 2 ELSE 1

\* in_reply_to_id of a comment on GitHub: comment 2 replies to comment 1,
\* every other comment is a root comment (0 stands for None).
ParentOf(c) == IF c = 2 THEN 1 ELSE 0

None == "None"

\* Thread ids f"pr-{pr_number}-thread-{timestamp}" as pairs <<pr, timestamp>>.
ThreadIds == PRs \X Times

\* None where a thread id is expected (dict.get of an unmapped comment)
NoThread == <<>>

SessionIds == {"s1", "s2"}

Roles == {"user", "assistant"}
Msgs  == [role : Roles, content : {"m"}]

\* models.Thread.status: Literal["active", "completed", "failed"]
StatusLiteral == {"active", "completed", "failed"}

\* the statuses the daemon passes to set_thread_status
Statuses == {"active", "completed", "failed", "pending"}

VARIABLES
    state,         \* ThreadManager.state (AutomationState in memory)
    state_file,    \* automation-state.json on disk
    thread_files,  \* <thread_id>.json on disk: thread id -> stored JSON
    now,           \* the clock
    lastOp,        \* the last operation and what it returned
    inv,           \* the last invoke_agent call: its assistant calls and outcome
    steps,         \* operations performed
    running,       \* CursorDaemon.running
    dpc,           \* where the daemon is: run() loop, process_all_prs, process_pr
    cycle,         \* poll cycles started
    prs_left,      \* process_all_prs: the PRs still to process in this cycle
    todo,          \* process_pr: the unprocessed comments still to process
    reactions,     \* GitHub: the reactions on each comment
    replies,       \* GitHub: the comments the daemon has answered
    ended,         \* how the last process_comment call of a comment ended
    prs,           \* process_all_prs: the PRs get_prs_with_label returned
    unprocessed,   \* process_pr: the comments its list comprehension kept
    hist,          \* what the current cycle has done so far (its log)
    assistant_cli, \* how a call of the assistant CLI ends on this host
    body,          \* parse_command: the comment body, as its words
    parsed,        \* parse_command: what it returned
    extract,       \* extract_code_snippet: its arguments and what it returned
    located        \* process_comment: comment.location and what its parsing gave

managerVars == <<state, state_file, thread_files, now, lastOp, inv, steps>>
daemonVars  == <<running, dpc, cycle, prs_left, todo, reactions, replies, ended,
                 prs, unprocessed, hist, assistant_cli>>
vars == <<state, state_file, thread_files, now, lastOp, inv, steps,
          running, dpc, cycle, prs_left, todo, reactions, replies, ended,
          prs, unprocessed, hist, assistant_cli, body, parsed, extract, located>>
utilVars == <<body, parsed, extract, located>>

\* ------------------------------------------------------- dict helpers
Put(f, k, v) == [x \in (DOMAIN f) \cup {k} |-> IF x = k THEN v ELSE f[x]]

EmptyDict == [x \in {} |-> None]

\* -------------------------------------------------- JSON (de)serialising
\* json.dump(..., default=str) writes a datetime as str(datetime)
DateStr(d) == <<"str", d>>

\* pydantic parses the stored string back into a datetime
ParseDate(s) == s[2]

\* thread.model_dump() written by json.dump
ThreadToJson(th) == [th EXCEPT !.created_at = DateStr(@)]

\* A file whose write was cut off: open(file, "w") has truncated it and
\* json.dump has not written all of it, so json.load raises on it.
Partial == [partial |-> TRUE]

\* json.load, then Thread(**data): pydantic validation of the stored record
JsonValid(j) == j # Partial /\ j.status \in StatusLiteral

ThreadFromJson(j) == [j EXCEPT !.created_at = ParseDate(@)]

\* load_thread returns a Thread (not None)
Loadable(files, t) == t \in DOMAIN files /\ JsonValid(files[t])

LoadThread(files, t) == ThreadFromJson(files[t])

SaveThread(files, th) == Put(files, th.thread_id, ThreadToJson(th))

\* get_thread_for_comment
GetThreadForComment(st, c) ==
    IF c \in DOMAIN st.comment_to_thread THEN st.comment_to_thread[c] ELSE NoThread

\* get_session_id
GetSessionId(files, t) ==
    IF Loadable(files, t) THEN LoadThread(files, t).cursor_session_id ELSE None

\* ------------------------------------------------ get_or_create_thread
NewThreadId(pr, ts) == <<pr, ts>>

NewThread(tid, pr, ts) ==
    [thread_id |-> tid, pr_number |-> pr, cursor_session_id |-> None,
     created_at |-> ts, status |-> "active", messages |-> <<>>]

\* the thread is registered but the comment is not mapped to it
RegisterThread_NoMapping(st, c, th) ==
    [st EXCEPT !.threads = Put(@, th.thread_id,
                               [pr_number |-> th.pr_number,
                                created_at |-> DateStr(th.created_at),
                                status |-> "active"])]

RegisterThread(st, c, th) ==
    [st EXCEPT !.comment_to_thread = Put(@, c, th.thread_id),
               !.threads = Put(@, th.thread_id,
                               [pr_number |-> th.pr_number,
                                created_at |-> DateStr(th.created_at),
                                status |-> "active"])]

\* saved: the Thread handed to save_thread by the operation, if any
Op(name, c, t, ret, saved) ==
    [op |-> name, comment |-> c, thread |-> t, ret |-> ret, saved |-> saved]

Step ==
    /\ steps < MaxSteps
    /\ steps' = steps + 1
    /\ UNCHANGED daemonVars
    /\ UNCHANGED utilVars

NoInv == [thread |-> NoThread, command |-> None, session_before |-> None,
          checkout |-> TRUE, calls |-> <<>>, status |-> -1, audit |-> None]

\* a thread-manager operation called on its own (no invocation in progress)
ManagerStep == Step /\ inv' = NoInv

GetOrCreateThread(c) ==
    LET existing == GetThreadForComment(state, c) IN
    /\ ManagerStep
    /\ IF existing # NoThread /\ Loadable(thread_files, existing)
       THEN /\ lastOp' = Op("get_or_create_thread", c, existing, "existing", <<>>)
            /\ UNCHANGED <<state, state_file, thread_files>>
       ELSE LET tid == NewThreadId(PrOf(c), now)
                th  == NewThread(tid, PrOf(c), now)
                st  == RegisterThread(state, c, th)
            IN /\ state' = st
               /\ state_file' = st
               /\ thread_files' = SaveThread(thread_files, th)
               /\ lastOp' = Op("get_or_create_thread", c, tid, "created", <<th>>)
    /\ UNCHANGED now

\* ---------------------------------------------------------- add_message
AppendMessage(th, m) == [th EXCEPT !.messages = Append(@, m)]

\* a missing thread is reported to the caller
AddMessageReturn_NotFound(found) == IF found THEN None ELSE "NotFound"

\* what add_message hands to its caller: None after the append, and None
\* after `logger.error(...); return` for a thread that does not load
AddMessageReturn(found) == None

AddMessage(t, m) ==
    /\ ManagerStep
    /\ IF ~Loadable(thread_files, t)
       THEN /\ lastOp' = Op("add_message", 0, t, AddMessageReturn(FALSE), <<>>)
            /\ UNCHANGED thread_files
       ELSE LET th == AppendMessage(LoadThread(thread_files, t), m) IN
            /\ Len(th.messages) <= MaxMsgs
            /\ thread_files' = SaveThread(thread_files, th)
            /\ lastOp' = Op("add_message", 0, t, AddMessageReturn(TRUE), <<th>>)
    /\ UNCHANGED <<state, state_file, now>>

\* ---------------------------------------------------- set_thread_status
WithStatus(th, s) == [th EXCEPT !.status = s]

IndexStatus(st, t, s) ==
    IF t \in DOMAIN st.threads
    THEN [st EXCEPT !.threads[t].status = s]
    ELSE st

\* set_thread_status as a function of the store (thread files, state in
\* memory, state file)
SetStatusStore(store, t, s) ==
    IF ~Loadable(store.files, t)
    THEN store
    ELSE [files |-> SaveThread(store.files, WithStatus(LoadThread(store.files, t), s)),
          state |-> IndexStatus(store.state, t, s),
          state_file |-> IF t \in DOMAIN store.state.threads
                         THEN IndexStatus(store.state, t, s)
                         ELSE store.state_file]

\* ret: the status passed to set_thread_status
SetThreadStatus(t, s) ==
    /\ ManagerStep
    /\ IF ~Loadable(thread_files, t)
       THEN /\ lastOp' = Op("set_thread_status", 0, t, s, <<>>)
            /\ UNCHANGED <<state, state_file, thread_files>>
       ELSE LET th == WithStatus(LoadThread(thread_files, t), s) IN
            /\ thread_files' = SaveThread(thread_files, th)
            /\ state' = IndexStatus(state, t, s)
            /\ state_file' = IF t \in DOMAIN state.threads
                             THEN IndexStatus(state, t, s) ELSE state_file
            /\ lastOp' = Op("set_thread_status", 0, t, s, <<th>>)
    /\ UNCHANGED now

\* ------------------------------------------------------- invoke_agent
Commands == {"ask", "plan", "implement"}

\* how a subprocess call of the assistant CLI can end
CalledProcessErrors == {"CalledProcessError:resource_exhausted",
                        "CalledProcessError:authentication",
                        "CalledProcessError:not found",
                        "CalledProcessError:other"}

FailKinds == CalledProcessErrors \cup {"FileNotFoundError", "PermissionError", "Exception"}

Results == {"ok"} \cup FailKinds

\* build_instructions: the header template is read only for a new session
BuildInstructions(command, is_new_session) ==
    [header |-> is_new_session, mode |-> command]

FullContext == [kind |-> "full", message |-> <<>>]

MinimalContext(m) == [kind |-> "minimal", message |-> <<m>>]

\* the full context document is always used
ContextToUse_AlwaysFull(files, t, session_id) == FullContext

\* context_to_use
ContextToUse(files, t, session_id) ==
    IF session_id # None
    THEN IF Loadable(files, t) /\ LoadThread(files, t).messages # <<>>
         THEN LET msgs == LoadThread(files, t).messages
                  last == msgs[Len(msgs)]
              IN IF last.role = "user" THEN MinimalContext(last) ELSE FullContext
         ELSE FullContext
    ELSE FullContext

\* combined-prompt.md
CombinedPrompt(instructions, context) ==
    [instructions |-> instructions, context |-> context]

\* the prompt rewritten after a failed resume
FallbackPrompt(instructions) == CombinedPrompt(instructions, FullContext)

\* the stored session is ignored and a new session is always created
AttemptResume_Never(session_id) == FALSE

\* `if session_id:` before the resume attempt
AttemptResume(session_id) == session_id # None

Call(what, session, prompt, result) ==
    [call |-> what, session |-> session, prompt |-> prompt, result |-> result]

\* _resume_session
ResumeSession(session_id, prompt, res) ==
    [raised |-> res, calls |-> <<Call("resume", session_id, <<prompt>>, res)>>]

\* a failure of sending the prompt is swallowed and the created id returned
CreateNewSession_SendErrorSwallowed(prompt, createRes, sid, sendRes) ==
    IF createRes # "ok"
    THEN [raised |-> createRes, session_id |-> None, created |-> None,
          calls |-> <<Call("create-chat", None, <<>>, createRes)>>]
    ELSE [raised |-> "ok", session_id |-> sid, created |-> sid,
          calls |-> <<Call("create-chat", sid, <<>>, "ok"),
                      Call("send", sid, <<prompt>>, sendRes)>>]

\* _create_new_session: create-chat, then the prompt is sent to the new session
CreateNewSession(prompt, createRes, sid, sendRes) ==
    IF createRes # "ok"
    THEN [raised |-> createRes, session_id |-> None, created |-> None,
          calls |-> <<Call("create-chat", None, <<>>, createRes)>>]
    ELSE [raised |-> sendRes,
          session_id |-> IF sendRes = "ok" THEN sid ELSE None,
          created |-> sid,
          calls |-> <<Call("create-chat", sid, <<>>, "ok"),
                      Call("send", sid, <<prompt>>, sendRes)>>]

\* a fixed id is stored, whatever session was created
SessionToStore_Fixed(new) == IF new.session_id # None THEN "s2" ELSE None

\* the session id handed to store_session_id after _create_new_session
SessionToStore(new) == new.session_id

WithSession(th, sid) == [th EXCEPT !.cursor_session_id = sid]

\* store_session_id
StoreSessionId(files, t, sid) ==
    IF Loadable(files, t)
    THEN SaveThread(files, WithSession(LoadThread(files, t), sid))
    ELSE files

\* the except clauses of invoke_agent, in their order
\* every failure is a hard failure
FailureStatus_AllFailure(kind) == 1

\* every failure asks for manual intervention
FailureStatus_AllManual(kind) == 2

\* an exception that is no CalledProcessError leaves invoke_agent (no status)
FailureStatus_Propagates(kind) == IF kind \in CalledProcessErrors THEN 1 ELSE -1

FailureStatus(kind) == IF kind \in CalledProcessErrors THEN 1 ELSE 2

FailureAudit(kind) ==
    IF kind \in CalledProcessErrors THEN "FAILED" ELSE "PENDING_MANUAL_INVOCATION"

\* checkout: whether get_pr_metadata and checkout_pr_branch returned
Outcome(t, command, session_id, checkout, calls, status, audit) ==
    [thread |-> t, command |-> command, session_before |-> session_id,
     checkout |-> checkout, calls |-> calls, status |-> status, audit |-> audit]

\* What the environment answers during one invocation: whether the checkout
\* succeeds, how the resume attempt ends, how create-chat ends, the id it
\* prints and how sending the prompt to the new session ends.  Answers to
\* calls that are never made are fixed, so each run is listed once.
Scenario(checkout, resumeRes, createRes, sid, sendRes) ==
    [checkout |-> checkout, resumeRes |-> resumeRes, createRes |-> createRes,
     sid |-> sid, sendRes |-> sendRes]

Scenarios(resumed) ==
    LET resumeFails == IF resumed THEN {"Exception"} ELSE {"ok"} IN
    {Scenario(FALSE, "ok", "ok", "s1", "ok")}
    \cup (IF resumed THEN {Scenario(TRUE, "ok", "ok", "s1", "ok")} ELSE {})
    \cup {Scenario(TRUE, r, c, "s1", "ok") : r \in resumeFails, c \in FailKinds}
    \cup {Scenario(TRUE, r, "ok", sid, s) :
             r \in resumeFails, sid \in SessionIds, s \in Results}

\* the failure of the checkout is logged and the invocation goes on
CheckoutFailed_Ignored(env) == FALSE

\* the `except Exception` around get_pr_metadata and checkout_pr_branch
CheckoutFailed(env) == ~env.checkout

InvokeAgent(t, command) ==
    LET session_id == GetSessionId(thread_files, t)
        instr      == BuildInstructions(command, session_id = None)
        prompt     == CombinedPrompt(instr, ContextToUse(thread_files, t, session_id))
        resumed    == AttemptResume(session_id)
    IN
    /\ Step
    /\ t \in DOMAIN thread_files
    /\ UNCHANGED <<state, state_file, now>>
    /\ \E env \in Scenarios(resumed) :
       LET resume == ResumeSession(session_id, prompt, env.resumeRes)
           new    == CreateNewSession(IF resumed THEN FallbackPrompt(instr) ELSE prompt,
                                      env.createRes, env.sid, env.sendRes)
           calls  == (IF resumed THEN resume.calls ELSE <<>>) \o new.calls
       IN
       IF CheckoutFailed(env)
       THEN /\ inv' = Outcome(t, command, session_id, env.checkout, <<>>, 1, None)
            /\ lastOp' = Op("invoke_agent", 0, t, "returned", <<>>)
            /\ UNCHANGED thread_files
       ELSE IF resumed /\ resume.raised = "ok"
       THEN /\ inv' = Outcome(t, command, session_id, env.checkout, resume.calls, 0, "SUCCESS")
            /\ lastOp' = Op("invoke_agent", 0, t, "returned", <<>>)
            /\ UNCHANGED thread_files
       ELSE IF new.raised = "ok"
       THEN /\ thread_files' = IF SessionToStore(new) # None
                               THEN StoreSessionId(thread_files, t, SessionToStore(new))
                               ELSE thread_files
            /\ lastOp' = Op("invoke_agent", 0, t, "returned",
                            IF SessionToStore(new) # None /\ Loadable(thread_files, t)
                            THEN <<WithSession(LoadThread(thread_files, t),
                                               SessionToStore(new))>>
                            ELSE <<>>)
            /\ inv' = Outcome(t, command, session_id, env.checkout, calls, 0, "SUCCESS")
       ELSE /\ inv' = Outcome(t, command, session_id, env.checkout, calls,
                              FailureStatus(new.raised), FailureAudit(new.raised))
            /\ lastOp' = Op("invoke_agent", 0, t, "returned", <<>>)
            /\ UNCHANGED thread_files

\* ------------------------------------------------- restart of the process
\* AutomationState()
NewAutomationState == [comment_to_thread |-> EmptyDict, threads |-> EmptyDict]

\* _load_state: the stored state, or a new one when json.load raises
LoadState(file) == IF file = Partial THEN NewAutomationState ELSE file

\* ThreadManager.__init__ -> _load_state reads automation-state.json
Restart ==
    /\ ManagerStep
    /\ state' = LoadState(state_file)
    /\ lastOp' = Op("restart", 0, NoThread, "ok", <<>>)
    /\ UNCHANGED <<state_file, thread_files, now>>

\* ------------------------------------------------ the process is killed
\* Where get_or_create_thread can be cut off once it creates a thread: in the
\* write of _save_state, after it and before save_thread, in the write of
\* save_thread.
CrashPoints == {"_save_state", "between", "save_thread"}

\* get_or_create_thread is killed at a crash point while it creates the
\* thread of comment c; the next process starts with _load_state
CrashInGetOrCreateThread(c, at) ==
    LET existing == GetThreadForComment(state, c)
        tid == NewThreadId(PrOf(c), now)
        th  == NewThread(tid, PrOf(c), now)
        st  == RegisterThread(state, c, th)
    IN
    /\ ManagerStep
    /\ ~(existing # NoThread /\ Loadable(thread_files, existing))
    /\ state_file' = IF at = "_save_state" THEN Partial ELSE st
    /\ thread_files' = IF at = "save_thread"
                       THEN Put(thread_files, tid, Partial)
                       ELSE thread_files
    /\ state' = LoadState(state_file')
    /\ lastOp' = Op("crash", c, tid, at, <<>>)
    /\ UNCHANGED now

\* add_message is killed in the write of save_thread; the next process
\* starts with _load_state
CrashInAddMessage(t, m) ==
    /\ ManagerStep
    /\ Loadable(thread_files, t)
    /\ Len(LoadThread(thread_files, t).messages) < MaxMsgs
    /\ thread_files' = Put(thread_files, t, Partial)
    /\ state' = LoadState(state_file)
    /\ lastOp' = Op("crash", 0, t, "save_thread", <<>>)
    /\ UNCHANGED <<state_file, now>>

\* time.time() advances
Tick ==
    /\ now < MaxTime
    /\ now' = now + 1
    /\ lastOp' = Op("tick", 0, NoThread, "ok", <<>>)
    /\ UNCHANGED <<state, state_file, thread_files, inv, steps>>
    /\ UNCHANGED daemonVars
    /\ UNCHANGED utilVars

\* ------------------------------------------------------------- the daemon
\* Comment.type: comments 1 and 2 are inline review comments, the others are
\* PR-level issue comments
TypeOf(c) == IF c \in {1, 2} THEN "review" ELSE "issue"

RECURSIVE Listed(_, _)
\* the comments of pr among from..NumComments that get_pr_comments keeps
Listed(from, keep) ==
    IF from > NumComments THEN <<>>
    ELSE IF keep[from] THEN <<from>> \o Listed(from + 1, keep)
    ELSE Listed(from + 1, keep)

\* get_pr_comments: the issue comments, then the review comments that are
\* not replies
GetPrComments(pr) ==
    Listed(1, [c \in Comments |-> PrOf(c) = pr /\ TypeOf(c) = "issue"])
    \o Listed(1, [c \in Comments |->
                     PrOf(c) = pr /\ TypeOf(c) = "review" /\ ParentOf(c) = 0])

Range(seq) == {seq[i] : i \in DOMAIN seq}

\* check_reactions: the reactions read from GitHub, or set() when the
\* request fails (failed: the comments whose request fails)
CheckReactions(c, failed) == IF c \in failed THEN {} ELSE reactions[c]

\* the 'rocket' reaction alone marks a comment as processed
HasProcessedReactions_RocketOnly(c, failed) == "rocket" \in CheckReactions(c, failed)

\* has_processed_reactions
HasProcessedReactions(c, failed) ==
    "eyes" \in CheckReactions(c, failed) /\ "rocket" \in CheckReactions(c, failed)

RECURSIVE Filter(_, _)
\* the list comprehension of process_pr
Filter(cs, failed) ==
    IF cs = <<>> THEN <<>>
    ELSE IF ~HasProcessedReactions(Head(cs), failed)
         THEN <<Head(cs)>> \o Filter(Tail(cs), failed)
         ELSE Filter(Tail(cs), failed)

\* the request also adds the 'rocket' reaction
AddReaction_AlsoRocket(rs, c, r, ok) ==
    IF ok THEN [rs EXCEPT ![c] = @ \cup {r, "rocket"}] ELSE rs

\* add_reaction: the reaction is added, or the request fails and False is returned
AddReaction(rs, c, r, ok) == IF ok THEN [rs EXCEPT ![c] = @ \cup {r}] ELSE rs

\* get_prs_with_label: the open PRs carrying the label, in GitHub's order
Listings == {<<>>, <<1>>, <<2>>, <<1, 2>>}

\* get_prs_with_label returns a listing ([] after a GithubException) or lets
\* another exception (the host is unreachable) escape process_all_prs
ListingResults ==
    {[raised |-> FALSE, prs |-> l] : l \in Listings}
    \cup {[raised |-> TRUE, prs |-> <<>>]}

\* how a call of the assistant CLI ends on the host of the daemon
AssistantConditions == {"ok", "CalledProcessError:other", "FileNotFoundError"}

\* no shutdown signal has arrived
NoSignal == [dpc |-> "none", started |-> 0]

\* the log of a cycle that has done nothing yet
NewCycle(h, raised_in) ==
    [h EXCEPT !.raised_in = raised_in, !.prs_done = <<>>, !.pr_raised = {},
              !.comments = <<>>, !.handled = <<>>, !.check_failed = {},
              !.eyes_ok = TRUE, !.again = {}]

\* The comments whose reactions request can fail with a difference: a failed
\* request returns set(), which changes the answer of has_processed_reactions
\* only for a comment that carries both reactions.
CanFailVisibly(comments) ==
    {c \in Range(comments) : {"eyes", "rocket"} \subseteq reactions[c]}

DaemonStep == UNCHANGED managerVars /\ UNCHANGED utilVars

\* _handle_shutdown
HandleShutdown ==
    /\ running
    /\ dpc # "stopped"
    /\ running' = FALSE
    /\ hist' = [hist EXCEPT !.signal_at =
                   [dpc |-> dpc, started |-> Len(hist.prs_done)]]
    /\ UNCHANGED <<dpc, cycle, prs_left, todo, reactions, replies, ended,
                   prs, unprocessed, assistant_cli>>
    /\ DaemonStep

\* the loop goes on whatever the shutdown flag says
KeepRunning_Always(flag) == TRUE

\* run: `while self.running`
KeepRunning(flag) == flag

\* run: the `while self.running` test; a cycle starts with get_prs_with_label
RunLoop ==
    /\ dpc = "run"
    /\ IF KeepRunning(running)
       THEN /\ cycle < MaxCycles
            /\ cycle' = cycle + 1
            /\ \E l \in ListingResults :
                  /\ prs' = l.prs
                  /\ prs_left' = l.prs
                  /\ hist' = NewCycle(hist, IF l.raised THEN cycle + 1 ELSE hist.raised_in)
            /\ dpc' = "process_all_prs"
       ELSE /\ dpc' = "stopped"
            /\ UNCHANGED <<cycle, prs, prs_left, hist>>
    /\ UNCHANGED <<running, todo, reactions, replies, ended, unprocessed, assistant_cli>>
    /\ DaemonStep

\* the loop over the PRs ends when the shutdown flag is set
MorePrs_WhileRunning(flag, left) == flag /\ left # <<>>

\* process_all_prs: `for pr_number in prs` (the flag is not read)
MorePrs(flag, left) == left # <<>>

\* an exception of process_pr escapes process_all_prs
NextPrs_Propagates(left, raised) == IF raised THEN <<>> ELSE Tail(left)

\* process_all_prs: the `except Exception` in the loop, then the next PR
NextPrs(left, raised) == Tail(left)

\* process_all_prs: the next PR of the cycle; process_pr lists the comments
\* (get_pr_comments returns [] after a GithubException) and filters them, or
\* an exception that is no GithubException escapes process_pr
ProcessPr ==
    /\ dpc = "process_all_prs"
    /\ MorePrs(running, prs_left)
    /\ LET pr_number == Head(prs_left) IN
       \E raised \in BOOLEAN :
          IF raised
          THEN /\ unprocessed' = <<>>
               /\ todo' = <<>>
               /\ prs_left' = NextPrs(prs_left, TRUE)
               /\ dpc' = "process_all_prs"
               /\ hist' = [hist EXCEPT !.prs_done = Append(@, pr_number),
                                       !.pr_raised = @ \cup {pr_number},
                                       !.comments = <<>>, !.handled = <<>>,
                                       !.check_failed = {}, !.eyes_ok = TRUE]
          ELSE \E comments \in {GetPrComments(pr_number), <<>>} :
               \E failed \in SUBSET CanFailVisibly(comments) :
               /\ unprocessed' = Filter(comments, failed)
               /\ todo' = Filter(comments, failed)
               /\ prs_left' = NextPrs(prs_left, FALSE)
               /\ dpc' = "process_pr"
               /\ hist' = [hist EXCEPT !.prs_done = Append(@, pr_number),
                                       !.comments = comments, !.handled = <<>>,
                                       !.check_failed = failed, !.eyes_ok = TRUE]
    /\ UNCHANGED <<running, cycle, reactions, replies, ended, prs, assistant_cli>>
    /\ DaemonStep

\* an exception of process_comment escapes process_pr
NextComments_Propagates(left, raised) == IF raised THEN <<>> ELSE Tail(left)

\* process_pr: the `except Exception` in the loop, then the next comment
NextComments(left, raised) == Tail(left)

\* the thread of the comment is looked up without an exception
ThreadLookupRaises_Never(c) == FALSE

\* process_comment: `self.thread_manager.get_or_create_thread(pr_number,
\* comment.id, comment.in_reply_to_id)` reads a field models.Comment does not
\* have, which raises AttributeError
ThreadLookupRaises(c) == TRUE

\* clean_comment_body(comment.body) of comment c
BodyOf(c) ==
    IF c = 1 THEN "body 1" ELSE IF c = 2 THEN "body 2"
    ELSE IF c = 3 THEN "body 3" ELSE "body 4"

\* user_message
UserMessage(c) == [role |-> "user", content |-> BodyOf(c)]

\* agent_message
AgentMessage == [role |-> "assistant", content |-> "response"]

\* add_message as a function of the thread files
AddMessageFiles(files, t, m) ==
    IF Loadable(files, t)
    THEN SaveThread(files, AppendMessage(LoadThread(files, t), m))
    ELSE files

\* the status invoke_agent returns on the host of the daemon
InvocationStatus(cli) == IF cli = "ok" THEN 0 ELSE FailureStatus(cli)

\* the status process_comment sets after the invocation
StatusAfter(status) ==
    IF status = 0 THEN "completed" ELSE IF status = 2 THEN "pending" ELSE "failed"

\* the reactions process_comment adds to the comment after the invocation
ReactionsAfter(status) ==
    IF status = 0 THEN {"rocket"}
    ELSE IF status = 2 THEN {"confused", "rocket"}
    ELSE {"-1", "rocket"}

\* process_comment after the thread lookup: the thread of the comment, the
\* user message, the invocation (a new session is stored when none was), the
\* assistant message on status 0, the status of the thread
StoreAfterComment(c) ==
    LET existing == GetThreadForComment(state, c)
        reuse    == existing # NoThread /\ Loadable(thread_files, existing)
        th       == NewThread(NewThreadId(PrOf(c), now), PrOf(c), now)
        tid      == IF reuse THEN existing ELSE th.thread_id
        st       == IF reuse THEN state ELSE RegisterThread(state, c, th)
        created  == IF reuse THEN thread_files ELSE SaveThread(thread_files, th)
        asked    == AddMessageFiles(created, tid, UserMessage(c))
        status   == InvocationStatus(assistant_cli)
        invoked  == IF status = 0 /\ GetSessionId(asked, tid) = None
                    THEN StoreSessionId(asked, tid, "s1") ELSE asked
        answered == IF status = 0
                    THEN AddMessageFiles(invoked, tid, AgentMessage) ELSE invoked
    IN SetStatusStore([files |-> answered, state |-> st,
                       state_file |-> IF reuse THEN state_file ELSE st],
                      tid, StatusAfter(status))

\* process_comment: the 'eyes' reaction is requested, then the thread lookup
\* raises AttributeError, which process_pr catches and logs; without the
\* exception the comment is handled to the end of its status branch
ProcessComment ==
    /\ dpc = "process_pr"
    /\ todo # <<>>
    /\ \E ok \in BOOLEAN :
          /\ hist' = [hist EXCEPT !.handled = Append(@, Head(todo)), !.eyes_ok = ok,
                                  !.again = IF ended[Head(todo)] # "not called"
                                            THEN @ \cup {Head(todo)} ELSE @]
          /\ IF ThreadLookupRaises(Head(todo))
             THEN /\ reactions' = AddReaction(reactions, Head(todo), "eyes", ok)
                  /\ ended' = [ended EXCEPT ![Head(todo)] = "AttributeError"]
                  /\ UNCHANGED replies
                  /\ DaemonStep
             ELSE LET c     == Head(todo)
                      store == StoreAfterComment(c)
                  IN /\ reactions' =
                          [AddReaction(reactions, c, "eyes", ok) EXCEPT
                              ![c] = @ \cup ReactionsAfter(InvocationStatus(assistant_cli))]
                     /\ ended' = [ended EXCEPT ![c] = "returned"]
                     /\ replies' = replies \cup {c}
                     /\ state' = store.state
                     /\ state_file' = store.state_file
                     /\ thread_files' = store.files
                     /\ UNCHANGED <<now, lastOp, inv, steps>>
                     /\ UNCHANGED utilVars
    /\ todo' = NextComments(todo, TRUE)
    /\ UNCHANGED <<running, dpc, cycle, prs_left, prs, unprocessed, assistant_cli>>

\* process_pr returns (its comments and unprocessed lists are gone)
PrDone ==
    /\ dpc = "process_pr"
    /\ todo = <<>>
    /\ dpc' = "process_all_prs"
    /\ unprocessed' = <<>>
    /\ hist' = [hist EXCEPT !.comments = <<>>, !.handled = <<>>,
                            !.check_failed = {}, !.eyes_ok = TRUE]
    /\ UNCHANGED <<running, cycle, prs_left, todo, reactions, replies, ended,
                   prs, assistant_cli>>
    /\ DaemonStep

\* an exception that escaped process_all_prs ends the loop
AfterCycle_ExceptionEnds(flag, raised) ==
    IF raised THEN "stopped" ELSE IF flag THEN "sleep" ELSE "run"

\* run: the `except Exception` around process_all_prs, then `if self.running:`
\* before time.sleep
AfterCycle(flag, raised) == IF flag THEN "sleep" ELSE "run"

\* process_all_prs returns or raises; run sleeps when still running
CycleDone ==
    /\ dpc = "process_all_prs"
    /\ ~MorePrs(running, prs_left)
    /\ dpc' = AfterCycle(running, hist.raised_in = cycle)
    /\ UNCHANGED <<running, cycle, prs_left, todo, reactions, replies, ended,
                   prs, unprocessed, hist, assistant_cli>>
    /\ DaemonStep

\* time.sleep(poll_interval) returns
Sleep ==
    /\ dpc = "sleep"
    /\ dpc' = "run"
    /\ UNCHANGED <<running, cycle, prs_left, todo, reactions, replies, ended,
                   prs, unprocessed, hist, assistant_cli>>
    /\ DaemonStep

\* a reviewer reacts to a comment on GitHub (with 'rocket' in NextDaemon:
\* 'eyes' on a comment is what process_comment itself requests)
UserReacts(c, r) ==
    /\ r \notin reactions[c]
    /\ reactions' = [reactions EXCEPT ![c] = @ \cup {r}]
    /\ UNCHANGED <<running, dpc, cycle, prs_left, todo, replies, ended,
                   prs, unprocessed, hist, assistant_cli>>
    /\ DaemonStep

\* ---------------------------------------------------------- parse_command
\* The words of a comment body (what whitespace separates).
Words == {"@bot", "plan", "PLAN", "planning", "fix", "fixed", "implement", "what"}

RECURSIVE SeqsUpTo(_, _)
\* the sequences over S of length at most n
SeqsUpTo(S, n) ==
    IF n = 0 THEN {<<>>}
    ELSE LET shorter == SeqsUpTo(S, n - 1) IN
         shorter \cup {Append(b, w) : b \in shorter, w \in S}

Bodies == SeqsUpTo(Words, MaxBody)

\* str.lower() of a word
Lower(w) == IF w = "PLAN" THEN "plan" ELSE w

\* body.lower()
BodyLower(b) == [i \in DOMAIN b |-> Lower(b[i])]

\* the word ends with a match of @\w+
EndsWithMention(w) == w = "@bot"

\* the word starts with a match of plan
StartsWithPlan(w) == w \in {"plan", "planning"}

\* the word starts with a match of (fix|implement)
StartsWithFixOrImplement(w) == w \in {"fix", "fixed", "implement"}

\* re.search(r"@\w+\s+plan", body_lower)
SearchPlan(body_lower) ==
    \E i \in 1..(Len(body_lower) - 1) :
        EndsWithMention(body_lower[i]) /\ StartsWithPlan(body_lower[i + 1])

\* re.search(r"@\w+\s+(fix|implement)", body_lower)
SearchImplement(body_lower) ==
    \E i \in 1..(Len(body_lower) - 1) :
        EndsWithMention(body_lower[i]) /\ StartsWithFixOrImplement(body_lower[i + 1])

\* parse_command
ParseCommand(b) ==
    LET body_lower == BodyLower(b) IN
    IF SearchPlan(body_lower) THEN "plan"
    ELSE IF SearchImplement(body_lower) THEN "implement"
    ELSE "ask"

\* parse_command(body) is called
ParseCommandCalled ==
    /\ parsed = None
    /\ parsed' = ParseCommand(body)
    /\ UNCHANGED <<body, extract, located>>
    /\ UNCHANGED managerVars
    /\ UNCHANGED daemonVars

\* --------------------------------------------------- extract_code_snippet
\* The lines of a source file, as f.readlines() returns them (without the
\* newline): declarations, an indented one, code, code that begins like a
\* keyword, a line with trailing blanks.
SourceLines == {"func f() {", "    struct S {", "x = 1", "functional()", "y = 2  "}

Files == SeqsUpTo(SourceLines, MaxLines)

\* str.rstrip() of a line
RStrip(line) == IF line = "y = 2  " THEN "y = 2" ELSE line

\* str.strip() of a line
Strip(line) == IF line = "    struct S {" THEN "struct S {" ELSE RStrip(line)

\* re.match(r"^(func|class|struct|enum|protocol|extension)\s+", line)
MatchesDeclaration(line) == line \in {"func f() {", "struct S {"}

Max(a, b) == IF a >= b THEN a ELSE b

Min(a, b) == IF a <= b THEN a ELSE b

\* the window starts at the target line
SnippetStart_AtTarget(line_num, context_lines) == Max(0, line_num - 1)

\* start = max(0, line_num - context_lines - 1), a 0-based index
SnippetStart(line_num, context_lines) == Max(0, line_num - context_lines - 1)

\* end = min(total_lines, line_num + context_lines), exclusive
SnippetEnd(total_lines, line_num, context_lines) ==
    Min(total_lines, line_num + context_lines)

\* f"{i+1:3d}|{marker}{lines[i].rstrip()}" for i in range(start, end)
SnippetLines(lines, line_num, context_lines) ==
    LET start == SnippetStart(line_num, context_lines)
        end   == SnippetEnd(Len(lines), line_num, context_lines)
    IN [k \in 1..(end - start) |->
           [number |-> start + k,
            marker |-> (start + k - 1 = line_num - 1),
            text   |-> RStrip(lines[start + k])]]

RECURSIVE FunctionName(_, _)
\* for i in range(line_num - 1, -1, -1): the first stripped line that matches
\* (i: the 1-based number of the line looked at)
FunctionName(lines, i) ==
    IF i < 1 THEN ""
    ELSE IF MatchesDeclaration(Strip(lines[i])) THEN Strip(lines[i])
    ELSE FunctionName(lines, i - 1)

\* the ("", "") of extract_code_snippet
NoSnippet == [snippet |-> <<>>, function_name |-> ""]

\* extract_code_snippet for a file that exists: lines[line_num - 1] beyond the
\* end of the file raises IndexError, which the except clause turns into ("", "")
ExtractCodeSnippet(lines, line_num, context_lines) ==
    IF line_num > Len(lines)
    THEN NoSnippet
    ELSE [snippet |-> SnippetLines(lines, line_num, context_lines),
          function_name |-> FunctionName(lines, line_num)]

\* extract_code_snippet(file_path, line_num, context_lines) is called
ExtractCodeSnippetCalled ==
    /\ ~extract.called
    /\ extract' = [extract EXCEPT !.called = TRUE,
                                  !.ret = ExtractCodeSnippet(extract.lines,
                                                             extract.line_num,
                                                             extract.context_lines)]
    /\ UNCHANGED <<body, parsed, located>>
    /\ UNCHANGED managerVars
    /\ UNCHANGED daemonVars

\* ----------------------------------- process_comment: comment.location
\* The parts of a location between its colons: file names and line numbers.
LocationParts == {"a.swift", "C", "12", "20"}

\* comment.location.split(":"); <<>> is the empty location
Locations == SeqsUpTo(LocationParts, MaxParts)

\* str.isdigit()
IsDigit(part) == part \in {"12", "20"}

\* int(part) returns (it raises ValueError otherwise)
IntParses(part) == part \in {"12", "20"}

\* int(part)
IntOf(part) == IF part = "12" THEN 12 ELSE 20

\* an int as <<n>>, None as <<>>
Some(n) == <<n>>

\* extract_code_snippet(file_path, line_num, end_line=end_line): the method has
\* the parameters file_path, line_num and context_lines, so the call raises
\* TypeError
ExtractCall(file_path, line_num, end_line) == "TypeError"

\* `if file_path and line_num:` and the call of extract_code_snippet
Extraction(file_path, line_num, end_line) ==
    IF file_path # <<>> /\ line_num # <<>> /\ line_num # Some(0)
    THEN ExtractCall(file_path, line_num, end_line)
    ELSE "skipped"

\* file_path (the parts joined by ":"), line_num and end_line after the
\* if / elif over len(parts)
ParsedLocation(parts) ==
    IF Len(parts) = 2
    THEN [file_path |-> <<parts[1]>>,
          line_num  |-> IF IntParses(parts[2]) THEN Some(IntOf(parts[2])) ELSE <<>>,
          end_line  |-> <<>>]
    ELSE IF Len(parts) >= 3
    THEN IF IsDigit(parts[1]) /\ IsDigit(parts[2])
         THEN [file_path |-> SubSeq(parts, 3, Len(parts)),
               line_num  |-> Some(IntOf(parts[1])),
               end_line  |-> Some(IntOf(parts[2]))]
         ELSE [file_path |-> <<parts[1]>>,
               line_num  |-> IF IntParses(parts[2]) THEN Some(IntOf(parts[2])) ELSE <<>>,
               end_line  |-> IF IntParses(parts[2]) /\ IntParses(parts[3])
                             THEN Some(IntOf(parts[3])) ELSE <<>>]
    ELSE [file_path |-> <<>>, line_num |-> <<>>, end_line |-> <<>>]

\* process_comment from `if comment.location:` to the call of
\* extract_code_snippet
ParseLocation(parts) ==
    LET p == ParsedLocation(parts) IN
    [file_path |-> p.file_path, line_num |-> p.line_num, end_line |-> p.end_line,
     extraction |-> Extraction(p.file_path, p.line_num, p.end_line)]

\* process_comment reaches the location of its comment
ParseLocationCalled ==
    /\ ~located.called
    /\ located' = [located EXCEPT !.called = TRUE, !.ret = ParseLocation(located.parts)]
    /\ UNCHANGED <<body, parsed, extract>>
    /\ UNCHANGED managerVars
    /\ UNCHANGED daemonVars

\* ------------------------------------------------------------------ spec
\* the state after ThreadManager.__init__ and CursorDaemon.__init__
InitStore ==
    /\ state = [comment_to_thread |-> EmptyDict, threads |-> EmptyDict]
    /\ state_file = state
    /\ thread_files = EmptyDict

InitProcess ==
    /\ now = 1
    /\ lastOp = Op("init", 0, NoThread, "ok", <<>>)
    /\ inv = NoInv
    /\ steps = 0
    /\ running = TRUE
    /\ dpc = "run"
    /\ cycle = 0
    /\ prs_left = <<>>
    /\ todo = <<>>
    /\ reactions = [c \in Comments |-> {}]
    /\ replies = {}
    /\ ended = [c \in Comments |-> "not called"]
    /\ prs = <<>>
    /\ unprocessed = <<>>
    /\ hist = [raised_in |-> 0, prs_done |-> <<>>, pr_raised |-> {},
               comments |-> <<>>, handled |-> <<>>, check_failed |-> {},
               eyes_ok |-> TRUE, signal_at |-> NoSignal, again |-> {}]

InitState == InitStore /\ InitProcess

\* parse_command has not been called
NoBody == body = <<>> /\ parsed = None

\* extract_code_snippet has not been called
NoExtract ==
    extract = [lines |-> <<>>, line_num |-> 0, context_lines |-> 0,
               called |-> FALSE, ret |-> NoSnippet]

\* process_comment before it looks at comment.location
NoParse == [file_path |-> <<>>, line_num |-> <<>>, end_line |-> <<>>,
            extraction |-> "skipped"]

\* no comment location has been parsed
NoLocation == located = [parts |-> <<>>, called |-> FALSE, ret |-> NoParse]

\* none of the helper functions is in use
UtilsIdle == NoBody /\ NoExtract /\ NoLocation

Init == InitState /\ assistant_cli = "ok" /\ UtilsIdle

Next ==
    \/ \E c \in Comments : GetOrCreateThread(c)
    \/ \E t \in ThreadIds, m \in Msgs : AddMessage(t, m)
    \/ \E t \in ThreadIds, s \in Statuses : SetThreadStatus(t, s)
    \/ \E t \in ThreadIds, command \in Commands : InvokeAgent(t, command)
    \/ Restart
    \/ Tick

Spec == Init /\ [][Next]_vars

\* the thread manager on a host where the process can be killed at any time
NextCrash ==
    \/ Next
    \/ \E c \in Comments, at \in CrashPoints : CrashInGetOrCreateThread(c, at)
    \/ \E t \in ThreadIds, m \in Msgs : CrashInAddMessage(t, m)

SpecCrash == Init /\ [][NextCrash]_vars

\* parse_command on every comment body of the bounded set
InitUtils ==
    /\ InitState
    /\ assistant_cli = "ok"
    /\ body \in Bodies
    /\ parsed = None
    /\ NoExtract
    /\ NoLocation

\* extract_code_snippet on every file, line and context window of the bounds
InitSnippet ==
    /\ InitState
    /\ assistant_cli = "ok"
    /\ NoBody
    /\ NoLocation
    /\ \E ls \in Files, l \in 0..(MaxLines + 1), c \in 0..MaxContext :
          extract = [lines |-> ls, line_num |-> l, context_lines |-> c,
                     called |-> FALSE, ret |-> NoSnippet]

NextSnippet == ExtractCodeSnippetCalled

SpecSnippet == InitSnippet /\ [][NextSnippet]_vars

\* a thread as earlier operations have left it on disk
StoredThread(tid, pr, ts, msgs, sid, status) ==
    [NewThread(tid, pr, ts) EXCEPT !.messages = msgs,
                                   !.cursor_session_id = sid,
                                   !.status = status]

\* invoke_agent on a store that holds the thread of comment 1, with every
\* message history, session id and status of the bounds
InitInvoke ==
    /\ InitProcess
    /\ assistant_cli = "ok"
    /\ UtilsIdle
    /\ \E msgs \in SeqsUpTo(Msgs, MaxMsgs), sid \in {None} \cup SessionIds,
          status \in Statuses :
          LET tid == NewThreadId(PrOf(1), 1)
              th  == StoredThread(tid, PrOf(1), 1, msgs, sid, status)
              st  == IndexStatus(RegisterThread(NewAutomationState, 1, th), tid, status)
          IN /\ state = st
             /\ state_file = st
             /\ thread_files = SaveThread(EmptyDict, th)

NextInvoke == \E t \in ThreadIds, command \in Commands : InvokeAgent(t, command)

SpecInvoke == InitInvoke /\ [][NextInvoke]_vars

\* process_comment on every comment location of the bounded set
InitLocation ==
    /\ InitState
    /\ assistant_cli = "ok"
    /\ NoBody
    /\ NoExtract
    /\ \E parts \in Locations :
          located = [parts |-> parts, called |-> FALSE, ret |-> NoParse]

NextLocation == ParseLocationCalled

SpecLocation == InitLocation /\ [][NextLocation]_vars

NextUtils == ParseCommandCalled

SpecUtils == InitUtils /\ [][NextUtils]_vars

\* the daemon runs on a host where the assistant CLI works, fails or is missing
InitDaemon == InitState /\ assistant_cli \in AssistantConditions /\ UtilsIdle

NextDaemon ==
    \/ HandleShutdown
    \/ RunLoop
    \/ ProcessPr
    \/ ProcessComment
    \/ PrDone
    \/ CycleDone
    \/ Sleep
    \/ \E c \in Comments : UserReacts(c, "rocket")

SpecDaemon == InitDaemon /\ [][NextDaemon]_vars

\* the steps of run(): every call it makes returns or raises, and
\* time.sleep(poll_interval) returns
RunSteps == RunLoop \/ ProcessPr \/ ProcessComment \/ PrDone \/ CycleDone \/ Sleep

SpecDaemonFair == InitDaemon /\ [][NextDaemon]_vars /\ WF_vars(RunSteps)

\* ================================================================ claims

MappedComments == DOMAIN state.comment_to_thread

C2_RepliesNeverFork ==
    \A r \in Comments :
        (/\ lastOp.op = "get_or_create_thread"
         /\ lastOp.comment = r
         /\ ParentOf(r) \in MappedComments) =>
            /\ lastOp.thread = GetThreadForComment(state, ParentOf(r))
            /\ lastOp.ret # "created"

\* C3: the threads created for two distinct comments have different ids.
C3_ThreadIdsUnique ==
    \A c1, c2 \in MappedComments :
        c1 # c2 => GetThreadForComment(state, c1) # GetThreadForComment(state, c2)

\* C4: a comment mapped to a thread stays mapped to that thread through every
\* operation and restart.
C4_MappingStable ==
    [][\A c \in MappedComments :
          GetThreadForComment(state', c) = GetThreadForComment(state, c)]_vars

\* C5: the messages load_thread returns for a thread are never lost or
\* altered: after every operation the thread still loads and its earlier
\* messages are a prefix of its messages.
C5_MessagesAppendOnly ==
    [][\A t \in DOMAIN thread_files :
          (Loadable(thread_files, t) /\ LoadThread(thread_files, t).messages # <<>>) =>
             /\ Loadable(thread_files', t)
             /\ LET old == LoadThread(thread_files, t).messages
                    new == LoadThread(thread_files', t).messages
                IN /\ Len(old) <= Len(new)
                   /\ SubSeq(new, 1, Len(old)) = old]_vars

\* C6: every Thread handed to save_thread is returned, equal in all fields,
\* by load_thread of its id.
C6_SaveLoadRoundTrip ==
    \A i \in DOMAIN lastOp.saved :
        LET th == lastOp.saved[i] IN
        /\ Loadable(thread_files, th.thread_id)
        /\ LoadThread(thread_files, th.thread_id) = th

C8_FallbackPromptFullWithHeader ==
    (lastOp.op = "invoke_agent" /\ inv.calls # <<>> /\ inv.calls[1].call = "resume") =>
        \A i \in DOMAIN inv.calls :
            inv.calls[i].call = "send" =>
                /\ inv.calls[i].prompt[1].context.kind = "full"
                /\ inv.calls[i].prompt[1].instructions.header

\* C9: the session id get_session_id returns for a thread becomes a new id
\* only in an invoke_agent call for that thread that returns success after the
\* prompt was sent to that session without error, and a restart changes the
\* session id of no thread.
C9_SessionIdOnlyAfterSuccess ==
    [][\A t \in ThreadIds :
          LET old == GetSessionId(thread_files, t)
              new == GetSessionId(thread_files', t)
          IN /\ (new # None /\ new # old) =>
                   /\ lastOp'.op = "invoke_agent"
                   /\ inv'.thread = t
                   /\ inv'.status = 0
                   /\ \E i \in DOMAIN inv'.calls :
                         /\ inv'.calls[i].call = "send"
                         /\ inv'.calls[i].session = new
                         /\ inv'.calls[i].result = "ok"
             /\ lastOp'.op = "restart" => new = old]_vars

\* a stored session id is still returned after a restart
C9_Witness ==
    /\ lastOp.op = "restart"
    /\ \E t \in DOMAIN thread_files : GetSessionId(thread_files, t) # None

\* the status of the thread a comment is mapped to
ThreadStatusOf(c) ==
    LET t == GetThreadForComment(state, c) IN
    IF t # NoThread /\ t \in DOMAIN thread_files THEN thread_files[t].status ELSE None

\* C10: every comment whose process_comment call has ended was handled by the
\* branch of its invocation status: reply posted with 'eyes' and 'rocket' and
\* status completed (0), or reaction '-1' with a reply and status failed (1),
\* or reaction 'confused' with a reply and status pending (2).
C10_StatusDeterminesHandling ==
    \A c \in Comments :
        ended[c] # "not called" =>
            /\ c \in replies
            /\ \/ /\ {"eyes", "rocket"} \subseteq reactions[c]
                  /\ ThreadStatusOf(c) = "completed"
               \/ /\ "-1" \in reactions[c]
                  /\ ThreadStatusOf(c) = "failed"
               \/ /\ "confused" \in reactions[c]
                  /\ ThreadStatusOf(c) = "pending"

\* process_pr has just called process_comment for comment c
ProcessCommentCalled(c) ==
    /\ dpc = "process_pr"
    /\ todo # <<>>
    /\ Head(todo) = c
    /\ hist'.handled = Append(hist.handled, c)

\* C11: on a host where the assistant CLI is missing (invoke_agent returns
\* status 2), a comment whose process_comment call has ended carries 'eyes'
\* and not 'rocket', and the status of its thread is 'pending'.
C11_ManualInterventionStaysRetryable ==
    \A c \in Comments :
        (assistant_cli = "FileNotFoundError" /\ ended[c] # "not called") =>
            /\ reactions[c] \cap {"eyes", "rocket"} = {"eyes"}
            /\ ThreadStatusOf(c) = "pending"

\* C12: on a host where the assistant CLI fails (invoke_agent returns status
\* 1), a comment whose process_comment call has ended carries both markers
\* and is never passed to process_comment again.
C12_FailureIsNeverRetried ==
    [][\A c \in Comments :
          (assistant_cli = "CalledProcessError:other" /\ ended[c] # "not called") =>
             /\ {"eyes", "rocket"} \subseteq reactions[c]
             /\ ~ProcessCommentCalled(c)]_vars

\* process_pr has just listed and filtered the comments of a PR
ProcessPrFiltered == dpc = "process_all_prs" /\ dpc' = "process_pr"

\* C13 as claimed: process_pr keeps no listed comment that carries 'rocket'
\* and keeps every listed comment that lacks it.
C13_RocketAloneDecides ==
    [][ProcessPrFiltered =>
          \A c \in Range(hist'.comments) :
              c \in Range(unprocessed') <=> "rocket" \notin reactions[c]]_vars

\* C13 as the code has it: process_pr keeps exactly the listed comments that
\* lack 'eyes' or 'rocket' (a comment with 'rocket' and without 'eyes' is
\* kept) and the comments whose reactions request failed.
C13_BothMarkersDecide ==
    [][ProcessPrFiltered =>
          /\ Range(unprocessed') \subseteq Range(hist'.comments)
          /\ \A c \in Range(hist'.comments) :
                 c \in Range(unprocessed') <=>
                    \/ ~({"eyes", "rocket"} \subseteq reactions[c])
                    \/ c \in hist'.check_failed]_vars

\* a comment with 'rocket' and without 'eyes' was kept while a comment
\* carrying both was skipped
C13_Witness ==
    /\ dpc = "process_pr"
    /\ hist.handled = <<>>
    /\ \E c \in Range(unprocessed) :
          "rocket" \in reactions[c] /\ "eyes" \notin reactions[c]
    /\ \E d \in Range(hist.comments) :
          d \notin Range(unprocessed) /\ {"eyes", "rocket"} \subseteq reactions[d]

C15_CommentsInListingOrder ==
    /\ hist.handled \o todo = unprocessed
    /\ \A i \in DOMAIN hist.handled : ended[hist.handled[i]] = "AttributeError"
    /\ \A i, j \in DOMAIN unprocessed :
          i < j => \E a, b \in DOMAIN hist.comments :
                      /\ a < b
                      /\ hist.comments[a] = unprocessed[i]
                      /\ hist.comments[b] = unprocessed[j]

\* process_pr has handled two comments whose calls both raised
C15_Witness ==
    /\ dpc = "process_pr"
    /\ todo = <<>>
    /\ Len(hist.handled) = 2
    /\ hist.handled = hist.comments

\* C16: process_all_prs calls process_pr once for each PR of the listing, in
\* its order: the PRs started so far followed by those still to start are the
\* listing, also after a process_pr call that raised.
C16_EachPrOncePerCycle ==
    /\ hist.prs_done \o prs_left = prs
    /\ hist.pr_raised \subseteq Range(hist.prs_done)
    /\ dpc \in {"sleep", "run", "stopped"} => hist.prs_done = prs

\* the cycle has ended with both listed PRs processed after the call for
\* the first one raised
C16_Witness ==
    /\ dpc = "sleep"
    /\ prs = <<1, 2>>
    /\ hist.prs_done = prs
    /\ 1 \in hist.pr_raised

\* C17: run() leaves its loop only with the shutdown flag set; after a cycle
\* whose process_all_prs raised, run() sleeps when the flag is not set, and
\* the loop test after the sleep starts the next cycle.
C17_LoopSurvivesExceptions ==
    [][/\ dpc' = "stopped" => ~running
       /\ (dpc = "process_all_prs" /\ hist.raised_in = cycle /\ dpc' # dpc) =>
             dpc' = IF running THEN "sleep" ELSE "run"
       /\ (dpc = "sleep" /\ dpc' # dpc) => dpc' = "run"
       /\ (dpc = "run" /\ running /\ dpc' # dpc) =>
             dpc' = "process_all_prs" /\ cycle' = cycle + 1]_vars

\* a cycle runs after a cycle whose process_all_prs raised
C17_Witness ==
    /\ running
    /\ dpc = "process_all_prs"
    /\ hist.raised_in > 0
    /\ cycle > hist.raised_in

\* C18 as claimed: after a shutdown signal that arrived while a PR was being
\* processed, no further PR is started.
C18_NoPrStartedAfterShutdown ==
    [][(~running /\ hist.signal_at.dpc = "process_pr") =>
          Len(hist'.prs_done) <= Len(hist.prs_done)]_vars

\* C18 as the code has it: the shutdown flag is read by run() only; once it
\* is set, process_pr still handles every comment left, process_all_prs
\* still starts every PR left, and no further cycle is started.
C18_ShutdownOnlyBetweenCycles ==
    [][~running =>
          /\ cycle' = cycle
          /\ (dpc = "process_pr" /\ todo # <<>>) => dpc' = "process_pr"
          /\ (dpc = "process_all_prs" /\ prs_left # <<>>) =>
                dpc' \in {"process_all_prs", "process_pr"}]_vars

\* a PR was started after the signal had arrived during an earlier PR
C18_Witness ==
    /\ ~running
    /\ hist.signal_at.dpc = "process_pr"
    /\ Len(hist.prs_done) > hist.signal_at.started
    /\ dpc = "process_pr"

\* C19: once the shutdown flag is set, run() starts no further cycle and,
\* every call in flight returning, the daemon stops.
C19_ShutdownStopsDaemon ==
    /\ (~running) ~> (dpc = "stopped")
    /\ [][~running => cycle' = cycle]_vars

\* the daemon has stopped after a signal that arrived while a PR was being
\* processed, once the PRs left in that cycle were processed
C19_Witness ==
    /\ dpc = "stopped"
    /\ hist.signal_at.dpc = "process_pr"
    /\ Len(hist.prs_done) > hist.signal_at.started

\* C20: an invocation whose PR metadata fetch or branch checkout failed
\* returns status 1 without any assistant call (no resume, no create-chat,
\* no send) and leaves every stored thread, with its session id and its
\* messages, and the index as they were.
C20_CheckoutFailureIsTerminal ==
    [][(lastOp'.op = "invoke_agent" /\ ~inv'.checkout) =>
          /\ inv'.status = 1
          /\ inv'.calls = <<>>
          /\ thread_files' = thread_files
          /\ state' = state
          /\ state_file' = state_file]_vars

\* the checkout failed in an invocation for a thread with a stored session id,
\* which is still stored afterwards
C20_Witness ==
    /\ lastOp.op = "invoke_agent"
    /\ ~inv.checkout
    /\ inv.session_before # None
    /\ GetSessionId(thread_files, inv.thread) = inv.session_before

\* how the last assistant call of the last invocation ended
LastResult == inv.calls[Len(inv.calls)].result

\* an invoke_agent call that made an assistant call has returned
Invoked == lastOp.op = "invoke_agent" /\ inv.calls # <<>>

C23_OutcomeAudited ==
    lastOp.op = "invoke_agent" =>
        inv.audit = CASE inv.status = 0 -> "SUCCESS"
                      [] inv.status = 1 -> "FAILED"
                      [] OTHER -> "PENDING_MANUAL_INVOCATION"

\* C25 as claimed: add_message for a thread id without a stored record hands
\* its caller an outcome that differs from the one of a successful append,
\* and changes nothing in the store.
C25_MissingThreadReported ==
    [][(lastOp'.op = "add_message" /\ lastOp'.thread \notin DOMAIN thread_files) =>
          /\ lastOp'.ret # AddMessageReturn(TRUE)
          /\ thread_files' = thread_files
          /\ state' = state
          /\ state_file' = state_file]_vars

\* C25 as the code has it: add_message for a thread id without a stored
\* record returns None, as a successful append does, and changes nothing in
\* the store.
C25_MissingThreadSilentlyIgnored ==
    [][(lastOp'.op = "add_message" /\ lastOp'.thread \notin DOMAIN thread_files) =>
          /\ lastOp'.ret = None
          /\ lastOp'.saved = <<>>
          /\ thread_files' = thread_files
          /\ state' = state
          /\ state_file' = state_file]_vars

\* add_message was called for a thread id without a record while another
\* thread was stored
C25_Witness ==
    /\ lastOp.op = "add_message"
    /\ lastOp.thread \notin DOMAIN thread_files
    /\ thread_files # EmptyDict

\* the store set_thread_status works on
Store == [files |-> thread_files, state |-> state, state_file |-> state_file]

\* C26: set_thread_status(T, s) for a thread T with a stored record leaves
\* the store that a second call with the same status leaves unchanged, and
\* after it the record of T and the index entry of T carry s.
C26_SetStatusIdempotentAndComplete ==
    [][(lastOp'.op = "set_thread_status" /\ lastOp'.thread \in DOMAIN thread_files) =>
          LET t == lastOp'.thread
              s == lastOp'.ret
          IN /\ Store' = SetStatusStore(Store, t, s)
             /\ SetStatusStore(Store', t, s) = Store'
             /\ thread_files'[t].status = s
             /\ t \in DOMAIN state'.threads => state'.threads[t].status = s
             /\ t \in DOMAIN state_file'.threads => state_file'.threads[t].status = s]_vars

\* C27: after set_thread_status(T, s) for a thread T that loads, load_thread(T)
\* returns the thread with status s and with its messages and session id as
\* before, for s = 'pending' as for the other statuses.
C27_StatusKeepsThreadLoadable ==
    [][(lastOp'.op = "set_thread_status" /\ Loadable(thread_files, lastOp'.thread)) =>
          LET t == lastOp'.thread IN
          /\ Loadable(thread_files', t)
          /\ LoadThread(thread_files', t) =
                WithStatus(LoadThread(thread_files, t), lastOp'.ret)]_vars

\* process_comment, in each of its three status branches: post_reply for an
\* inline review comment, post_comment for a PR-level comment
ReplyRoute(c) == IF TypeOf(c) = "review" THEN "post_reply" ELSE "post_comment"

\* how the daemon has answered comment c on GitHub
PostedVia(c) == IF c \in replies THEN ReplyRoute(c) ELSE "none"

\* C24: every comment whose process_comment call has ended was answered, an
\* inline review comment by a reply in its review thread (post_reply) and a
\* PR-level comment by a new PR-level comment (post_comment).
C24_ReplyFollowsCommentType ==
    \A c \in Comments :
        ended[c] # "not called" =>
            PostedVia(c) = (IF TypeOf(c) = "review" THEN "post_reply" ELSE "post_comment")

\* the index stored on disk, as the next process reads it
StoredIndex == LoadState(state_file)

\* C28: at every moment, crashes included, every mapping of the stored index
\* leads to a thread record on disk and every thread record on disk is the
\* target of a mapping of the stored index.
C28_IndexAndRecordsAgree ==
    /\ \A c \in DOMAIN StoredIndex.comment_to_thread :
          StoredIndex.comment_to_thread[c] \in DOMAIN thread_files
    /\ \A t \in DOMAIN thread_files :
          \E c \in DOMAIN StoredIndex.comment_to_thread :
              StoredIndex.comment_to_thread[c] = t

\* C29: a crash in the write of the state file or of a thread file leaves no
\* partial file, and the process started after it finds every mapping and,
\* in every thread that loaded before, the same session id and every message.
C29_CrashLeavesOldOrNewContent ==
    [][lastOp'.op = "crash" =>
          /\ state_file' # Partial
          /\ \A t \in DOMAIN thread_files' : thread_files'[t] # Partial
          /\ \A c \in DOMAIN StoredIndex.comment_to_thread :
                /\ c \in DOMAIN state'.comment_to_thread
                /\ state'.comment_to_thread[c] = StoredIndex.comment_to_thread[c]
          /\ \A t \in DOMAIN thread_files :
                Loadable(thread_files, t) =>
                    /\ Loadable(thread_files', t)
                    /\ LoadThread(thread_files', t).cursor_session_id =
                          LoadThread(thread_files, t).cursor_session_id
                    /\ LoadThread(thread_files', t).messages =
                          LoadThread(thread_files, t).messages]_vars

\* the word is a mention
IsMention(w) == w = "@bot"

\* word w, whatever its case, follows a mention in body b
FollowsMention(b, w) ==
    \E i \in 1..(Len(b) - 1) : IsMention(b[i]) /\ Lower(b[i + 1]) = w

\* C30: parse_command returns 'plan' when the word plan follows a mention,
\* 'implement' when the word fix or implement follows a mention, and 'ask'
\* for every other body; the result is one of ask, plan, implement.
C30_CommandFollowsMention ==
    parsed # None =>
        /\ parsed \in Commands
        /\ FollowsMention(body, "plan") => parsed = "plan"
        /\ (~FollowsMention(body, "plan")
               /\ (FollowsMention(body, "fix") \/ FollowsMention(body, "implement")))
              => parsed = "implement"
        /\ (~FollowsMention(body, "plan") /\ ~FollowsMention(body, "fix")
               /\ ~FollowsMention(body, "implement")) => parsed = "ask"

\* the numbers of the lines at or before line l that open a declaration
DeclarationsUpTo(lines, l) ==
    {k \in 1..l : MatchesDeclaration(Strip(lines[k]))}

\* the greatest element of a non-empty set of numbers
Greatest(S) == CHOOSE k \in S : \A j \in S : j <= k

IsFileLine(parts) == Len(parts) = 2 /\ IntParses(parts[2])

\* the first two parts are integers: 'start:end:path'
IsRangeThenPath(parts) ==
    Len(parts) >= 3 /\ IntParses(parts[1]) /\ IntParses(parts[2])

\* 'file:start:end'
IsFileStartEnd(parts) ==
    /\ Len(parts) >= 3
    /\ ~IsRangeThenPath(parts)
    /\ IntParses(parts[2])
    /\ IntParses(parts[3])

\* C32: 'file:line' yields (file, line); a location whose first two parts are
\* integers yields the range (start, end) and the remaining parts as the path;
\* otherwise 'file:start:end' yields (file, start, end); a location of none of
\* these forms leads to no extraction and to no error.
C32_LocationFormsAndSilentSkip ==
    located.called =>
        LET parts == located.parts
            ret   == located.ret
        IN /\ IsFileLine(parts) =>
                 /\ ret.file_path = <<parts[1]>>
                 /\ ret.line_num = Some(IntOf(parts[2]))
           /\ IsRangeThenPath(parts) =>
                 /\ ret.line_num = Some(IntOf(parts[1]))
                 /\ ret.end_line = Some(IntOf(parts[2]))
                 /\ ret.file_path = SubSeq(parts, 3, Len(parts))
           /\ IsFileStartEnd(parts) =>
                 /\ ret.file_path = <<parts[1]>>
                 /\ ret.line_num = Some(IntOf(parts[2]))
                 /\ ret.end_line = Some(IntOf(parts[3]))
           /\ (~IsFileLine(parts) /\ ~IsRangeThenPath(parts) /\ ~IsFileStartEnd(parts)) =>
                 ret.extraction = "skipped"

RECURSIVE FirstPrompt(_)
\* the prompt of the first assistant call that was given one (combined-prompt.md
\* as invoke_agent first wrote it)
FirstPrompt(calls) ==
    IF calls = <<>> THEN <<>>
    ELSE IF Head(calls).prompt # <<>> THEN Head(calls).prompt
    ELSE FirstPrompt(Tail(calls))

\* a session id is stored for thread t and its last stored message is a user
\* message
ResumesWithUserMessage(t) ==
    /\ GetSessionId(thread_files, t) # None
    /\ Loadable(thread_files, t)
    /\ LoadThread(thread_files, t).messages # <<>>
    /\ LET msgs == LoadThread(thread_files, t).messages IN
          msgs[Len(msgs)].role = "user"

\* C33: the prompt invoke_agent builds for a thread with a stored session id
\* whose last stored message is a user message has no instruction header and
\* holds only that message as context; with no stored session id, with a last
\* message that is no user message, or with a thread that does not load, the
\* context is the full context document.
C33_MinimalContextOnlyWhenResuming ==
    [][(lastOp'.op = "invoke_agent" /\ FirstPrompt(inv'.calls) # <<>>) =>
          LET t      == inv'.thread
              prompt == FirstPrompt(inv'.calls)[1]
          IN IF ResumesWithUserMessage(t)
             THEN LET msgs == LoadThread(thread_files, t).messages IN
                  /\ ~prompt.instructions.header
                  /\ prompt.context.kind = "minimal"
                  /\ prompt.context.message = <<msgs[Len(msgs)]>>
             ELSE prompt.context.kind = "full"]_vars

\* a session was resumed with the newest user message alone, after an
\* assistant message
C33_Witness ==
    /\ lastOp.op = "invoke_agent"
    /\ inv.session_before # None
    /\ inv.calls # <<>>
    /\ inv.calls[1].call = "resume"
    /\ inv.calls[1].prompt[1].context.kind = "minimal"
    /\ Loadable(thread_files, inv.thread)
    /\ Len(LoadThread(thread_files, inv.thread).messages) = 2

\* the messages stored in the thread comment c is mapped to
StoredMessages(c) ==
    LET t == GetThreadForComment(state, c) IN
    IF t # NoThread /\ t \in DOMAIN thread_files /\ thread_files[t] # Partial
    THEN thread_files[t].messages
    ELSE <<>>

\* the user messages comment c has contributed to its thread
UserMessagesOf(c) ==
    Cardinality({i \in DOMAIN StoredMessages(c) : StoredMessages(c)[i] = UserMessage(c)})

\* C34: after process_comment has handled a comment, its thread holds exactly
\* one user message of the comment, followed by an assistant message if and
\* only if the invocation status is 0.
C34_UserMessageThenAssistantOnSuccess ==
    \A c \in Comments :
        ended[c] # "not called" =>
            /\ UserMessagesOf(c) = 1
            /\ \E i \in DOMAIN StoredMessages(c) :
                  /\ StoredMessages(c)[i] = UserMessage(c)
                  /\ (InvocationStatus(assistant_cli) = 0) <=>
                        (i < Len(StoredMessages(c))
                           /\ StoredMessages(c)[i + 1] = AgentMessage)

OthersUntouched(t) ==
    \A u \in DOMAIN thread_files :
        u # t => (u \in DOMAIN thread_files' /\ thread_files'[u] = thread_files[u])

\* the step keeps field f of the record of thread t, when t has a record
Keeps(t, f) ==
    t \in DOMAIN thread_files =>
        (t \in DOMAIN thread_files' /\ thread_files'[t][f] = thread_files[t][f])

\* add_message, store_session_id (in invoke_agent) and set_thread_status
\* change only their own field of their own thread and no mapping
MutationFrames ==
    /\ lastOp'.op = "add_message" =>
          /\ Keeps(lastOp'.thread, "status")
          /\ Keeps(lastOp'.thread, "cursor_session_id")
          /\ OthersUntouched(lastOp'.thread)
          /\ state'.comment_to_thread = state.comment_to_thread
    /\ lastOp'.op = "invoke_agent" =>
          /\ Keeps(lastOp'.thread, "status")
          /\ Keeps(lastOp'.thread, "messages")
          /\ OthersUntouched(lastOp'.thread)
          /\ state'.comment_to_thread = state.comment_to_thread
    /\ lastOp'.op = "set_thread_status" =>
          /\ Keeps(lastOp'.thread, "messages")
          /\ Keeps(lastOp'.thread, "cursor_session_id")
          /\ OthersUntouched(lastOp'.thread)
          /\ state'.comment_to_thread = state.comment_to_thread

\* the status of a stored thread changes in a set_thread_status step only
StatusOnlyBySetThreadStatus ==
    \A t \in DOMAIN thread_files :
        (t \in DOMAIN thread_files' /\ thread_files'[t].status # thread_files[t].status)
            => lastOp'.op = "set_thread_status"

\* C35: add_message leaves status and session id of its thread unchanged,
\* store_session_id leaves status and messages unchanged, set_thread_status
\* leaves messages and session id unchanged, none of them touches another
\* thread's record or the comment-to-thread mapping, and the status of a
\* thread changes through set_thread_status only.
C35_MutationsChangeOnlyTheirField ==
    [][MutationFrames /\ StatusOnlyBySetThreadStatus]_vars

\* the frame clauses of the three mutations alone
FramesOfMutations == [][MutationFrames]_vars

\* the session id in the stored record of thread t
StoredSessionId(files, t) == files[t].cursor_session_id

\* the invocation created a session with id sid and sent it the prompt
\* without error
CreatedAndSent(calls, sid) ==
    \E i \in DOMAIN calls :
        /\ calls[i].call = "send"
        /\ calls[i].session = sid
        /\ calls[i].result = "ok"

\* C38: an invoke_agent call changes the stored session id of a thread only
\* when it is the thread of the call, a new session was created and its
\* prompt was sent without error, and the id stored is the id of that
\* session; after a successful resume, and after a failed resume followed by
\* a failed creation, every stored session id is as before.
C38_SessionIdChangesOnlyWithNewSession ==
    [][lastOp'.op = "invoke_agent" =>
          \A t \in DOMAIN thread_files :
              LET old == StoredSessionId(thread_files, t)
                  new == StoredSessionId(thread_files', t)
              IN /\ new # old =>
                       /\ t = inv'.thread
                       /\ inv'.status = 0
                       /\ CreatedAndSent(inv'.calls, new)
                 /\ (inv'.calls # <<>> /\ inv'.calls[1].call = "resume"
                       /\ inv'.calls[1].result = "ok") => new = old
                 /\ (inv'.calls # <<>> /\ inv'.calls[1].call = "resume"
                       /\ inv'.calls[1].result # "ok" /\ inv'.status # 0) => new = old]_vars

\* the resume and the creation of a new session both failed and the stored
\* session id is the one stored before
C38_Witness ==
    /\ lastOp.op = "invoke_agent"
    /\ inv.session_before # None
    /\ inv.calls # <<>>
    /\ inv.calls[1].result # "ok"
    /\ inv.status # 0
    /\ StoredSessionId(thread_files, inv.thread) = inv.session_before

\* C39: whatever fails in an invoke_agent call (the checkout, the resume
\* attempt, the creation of a session or sending it the prompt), the call
\* returns to its caller with a status in {0, 1, 2}; no exception leaves it.
C39_InvokeAgentAlwaysReturnsStatus ==
    lastOp.op = "invoke_agent" =>
        /\ lastOp.ret = "returned"
        /\ inv.status \in {0, 1, 2}

\* the resume and the creation both ended in exceptions that are no
\* CalledProcessError, and the call returned
C39_Witness ==
    /\ lastOp.op = "invoke_agent"
    /\ Len(inv.calls) = 2
    /\ inv.calls[1].call = "resume"
    /\ inv.calls[1].result = "Exception"
    /\ inv.calls[2].result \in {"FileNotFoundError", "PermissionError", "Exception"}
    /\ inv.status = 2
====
